---- MODULE Spec2Model ----
(***************************************************************************)
(* Model of conciliador.py: conciliar(df_banco, df_ventas, tolerancia).    *)
(*                                                                         *)
(* A DataFrame is a sequence of rows.  A row is a record with the index    *)
(* label idx and the columns idcuenta (a string), importe (a number with    *)
(* at most two decimals, kept as an integer number of cents) and fecha (a  *)
(* timestamp, counted in hours).  The importe column of a frame has a      *)
(* dtype, int64 or float64, which read_csv infers from the text of the     *)
(* file and limpiar_datos keeps.  The missing value of pandas is NaN.      *)
(***************************************************************************)
EXTENDS Naturals, Integers, Sequences, FiniteSets, TLC

VARIABLES df_banco, df_ventas, dtype_banco, dtype_ventas, tolerancia_horas,
          conciliados, conciliados_tol, ventas_sin_depositar,
          depositos_sin_registro, dif_importe, llamadas

vars == <<df_banco, df_ventas, dtype_banco, dtype_ventas, tolerancia_horas,
          conciliados, conciliados_tol,
          ventas_sin_depositar, depositos_sin_registro, dif_importe, llamadas>>

(* ------------------------------ bounds --------------------------------- *)
\* most rows of the two frames together
MaxFilas == 3
\* timestamps are 0 .. MaxFecha
MaxFecha == 1
\* largest tolerance (hours) a call is made with
MaxTolerancia == 1
\* most rows of the two frames together when the files are chronological
MaxFilasCrono == 4

\* the accounts and amounts (in cents) the rows are drawn from: two amounts
\* of one account and one amount of a second account
Registros == {<<"1", 300>>, <<"1", 2300>>, <<"12", 300>>}
\* the dtypes read_csv gives an importe column: int64 when every amount of
\* the file is written as a whole number, float64 otherwise
Dtypes == {"int64", "float64"}

\* the missing value of a string column and of a float column (no amount of
\* Registros equals the latter)
NaN == "NaN"
NaNFloat == 0 - 1

Max(S) == CHOOSE m \in S : \A x \in S : x <= m
Min(S) == CHOOSE m \in S : \A x \in S : m <= x
Abs(n) == IF n < 0 THEN -n ELSE n

(* -------------------------- number -> str ------------------------------ *)
Digito(d) ==
    CASE d = 0 -> "0" [] d = 1 -> "1" [] d = 2 -> "2" [] d = 3 -> "3"
      [] d = 4 -> "4" [] d = 5 -> "5" [] d = 6 -> "6" [] d = 7 -> "7"
      [] d = 8 -> "8" [] d = 9 -> "9"

\* the decimal digits of a natural number
RECURSIVE EnteroStr(_)
EnteroStr(n) ==
    IF n < 10 THEN Digito(n) ELSE EnteroStr(n \div 10) \o Digito(n % 10)

\* importe.astype(str), by the dtype of the column.
\* int64: the digits of the whole number, no decimal point (3 -> "3").
\* float64: the shortest decimal form that reads back, with at least one
\* decimal digit (23.0 -> "23.0", 3.5 -> "3.5", 3.05 -> "3.05").
\* A negative amount has a leading "-".  Amounts stay below 1e16 in
\* magnitude, where the text of a float turns to exponent form.
AsTypeStr(importe, dtype) ==
    LET signo == IF importe < 0 THEN "-" ELSE ""
        ent   == Abs(importe) \div 100
        dec   == Abs(importe) % 100
    IN  IF dtype = "int64"
        THEN signo \o EnteroStr(ent)
        ELSE signo \o EnteroStr(ent) \o "." \o
             (IF dec % 10 = 0 THEN Digito(dec \div 10)
                              ELSE Digito(dec \div 10) \o Digito(dec % 10))

\* df['key'] = df['idcuenta'] + df['importe'].astype(str)
Key(r, dtype) == r.idcuenta \o AsTypeStr(r.importe, dtype)

(* ----------------------------- frames ---------------------------------- *)
\* df.copy() followed by the assignment of the key column to the copy
ConKey(df, dtype) ==
    [i \in DOMAIN df |->
        LET r == df[i]
        IN  [idx |-> r.idx, idcuenta |-> r.idcuenta, importe |-> r.importe,
             fecha |-> r.fecha, key |-> Key(r, dtype)]]

\* .drop(columns=['key'])
DropKey(df) ==
    [i \in DOMAIN df |->
        LET r == df[i]
        IN  [idx |-> r.idx, idcuenta |-> r.idcuenta, importe |-> r.importe,
             fecha |-> r.fecha]]

\* df.sort_values('fecha'): ascending, rows of equal fecha keep their order
\* (the frames are far below the size at which the sort stops being an
\* insertion sort)
RECURSIVE SortValues(_)
SortValues(df) ==
    IF Len(df) <= 1 THEN df
    ELSE LET ini == SortValues(SubSeq(df, 1, Len(df) - 1))
             r   == df[Len(df)]
             k   == Cardinality({i \in DOMAIN ini : ini[i].fecha <= r.fecha})
         IN  SubSeq(ini, 1, k) \o <<r>> \o SubSeq(ini, k + 1, Len(ini))

(* ---------------------------- merge_asof ------------------------------- *)
\* direction='backward': for each left row the last right row, in sorted
\* order, of the same group whose fecha is not later (exact matches allowed);
\* 0 when there is none or when it is further away than the tolerance.
AsofBackward(left, right, by, tol) ==
    [i \in DOMAIN left |->
        LET l == left[i]
            cand == {j \in DOMAIN right :
                        /\ right[j].fecha <= l.fecha
                        /\ right[j][by] = l[by]}
            j == IF cand = {} THEN 0 ELSE Max(cand)
        IN  IF j # 0 /\ ~(l.fecha - right[j].fecha <= tol) THEN 0 ELSE j]

\* direction='forward': the first right row of the same group whose fecha
\* is not earlier.
AsofForward(left, right, by, tol) ==
    [i \in DOMAIN left |->
        LET l == left[i]
            cand == {j \in DOMAIN right :
                        /\ right[j].fecha >= l.fecha
                        /\ right[j][by] = l[by]}
            j == IF cand = {} THEN 0 ELSE Min(cand)
        IN  IF j # 0 /\ ~(right[j].fecha - l.fecha <= tol) THEN 0 ELSE j]

\* direction='nearest': the right indexer; of the backward and the forward
\* candidate the one with the smaller difference, the backward one on a tie.
AsofNearest(left, right, by, tol) ==
    LET bri == AsofBackward(left, right, by, tol)
        fri == AsofForward(left, right, by, tol)
    IN  [i \in DOMAIN left |->
            LET b == bri[i]
                f == fri[i]
            IN  IF b # 0 /\ f # 0
                THEN LET diff_b == left[i].fecha - right[b].fecha
                         diff_f == right[f].fecha - left[i].fecha
                     IN  IF diff_b <= diff_f THEN b ELSE f
                ELSE IF b # 0 THEN b ELSE f]

(* ------------------------------ merges --------------------------------- *)
\* pd.merge(..., on=['idcuenta','importe','fecha'], how='inner'): one row for
\* every bank row and every sales row that agree on the three columns
RECURSIVE MergeInner(_, _)
MergeInner(left, right) ==
    IF left = <<>> THEN <<>>
    ELSE LET b == Head(left)
             Igual(v) == /\ v.idcuenta = b.idcuenta
                         /\ v.importe = b.importe
                         /\ v.fecha = b.fecha
             par == SelectSeq(right, Igual)
         IN  [j \in DOMAIN par |->
                 [banco |-> b.idx, venta |-> par[j].idx, idcuenta |-> b.idcuenta,
                  importe |-> b.importe, fecha |-> b.fecha]]
             \o MergeInner(Tail(left), right)

\* The tolerance pass grouped by the account alone, as the pass that looks
\* for amount differences is.
MergeAsofKeyPorCuenta(df_banco_, df_ventas_, tol) ==
    LET left  == SortValues(df_banco_)
        right == SortValues(df_ventas_)
        ri    == AsofNearest(left, right, "idcuenta", tol)
    IN  [i \in DOMAIN left |->
            LET b == left[i]
                j == ri[i]
            IN  [banco |-> b.idx,
                 venta |-> IF j = 0 THEN 0 ELSE right[j].idx,
                 idcuenta_banco |-> b.idcuenta,
                 importe_banco |-> b.importe,
                 fecha |-> b.fecha,
                 key |-> b.key,
                 idcuenta_venta |-> IF j = 0 THEN NaN ELSE right[j].idcuenta,
                 importe_venta |-> IF j = 0 THEN NaNFloat ELSE right[j].importe]]

\* pd.merge_asof(sorted bank, sorted sales, on='fecha', by='key',
\* direction='nearest', tolerance, suffixes): a left join, one row for every
\* bank row, in the order of the sorted bank frame; the sales columns are NaN
\* where the bank row found no partner.  banco and venta are the index
\* labels of the two rows joined (venta = 0: no partner).
MergeAsofKey(df_banco_, df_ventas_, tol) ==
    LET left  == SortValues(df_banco_)
        right == SortValues(df_ventas_)
        ri    == AsofNearest(left, right, "key", tol)
    IN  [i \in DOMAIN left |->
            LET b == left[i]
                j == ri[i]
            IN  [banco |-> b.idx,
                 venta |-> IF j = 0 THEN 0 ELSE right[j].idx,
                 idcuenta_banco |-> b.idcuenta,
                 importe_banco |-> b.importe,
                 fecha |-> b.fecha,
                 key |-> b.key,
                 idcuenta_venta |-> IF j = 0 THEN NaN ELSE right[j].idcuenta,
                 importe_venta |-> IF j = 0 THEN NaNFloat ELSE right[j].importe]]

\* the same call with by='idcuenta'
MergeAsofCuenta(df_banco_, df_ventas_, tol) ==
    LET left  == SortValues(df_banco_)
        right == SortValues(df_ventas_)
        ri    == AsofNearest(left, right, "idcuenta", tol)
    IN  [i \in DOMAIN left |->
            LET b == left[i]
                j == ri[i]
            IN  [banco |-> b.idx,
                 venta |-> IF j = 0 THEN 0 ELSE right[j].idx,
                 idcuenta |-> b.idcuenta,
                 importe_banco |-> b.importe,
                 fecha |-> b.fecha,
                 key_banco |-> b.key,
                 importe_venta |-> IF j = 0 THEN NaNFloat ELSE right[j].importe,
                 key_venta |-> IF j = 0 THEN NaN ELSE right[j].key]]

\* conciliados_tol.drop(columns=['key'])
DropKeyTol(df) ==
    [i \in DOMAIN df |->
        LET r == df[i]
        IN  [banco |-> r.banco, venta |-> r.venta,
             idcuenta_banco |-> r.idcuenta_banco,
             importe_banco |-> r.importe_banco, fecha |-> r.fecha,
             idcuenta_venta |-> r.idcuenta_venta,
             importe_venta |-> r.importe_venta]]

\* set(conciliados_tol['key'].dropna())
ConciliadosKeys(tol_df) ==
    {k \in {tol_df[i].key : i \in DOMAIN tol_df} : k # NaN}

\* df[~df['key'].isin(conciliados_keys)].drop(columns=['key'])
SinKey(df_, conciliados_keys) ==
    LET Fuera(r) == r.key \notin conciliados_keys
    IN  DropKey(SelectSeq(df_, Fuera))

\* the amount differences without the final dropna
DifImporteSinDropna(pares) ==
    LET Distinto(r) == r.importe_venta = NaNFloat \/ r.importe_banco # r.importe_venta
    IN  SelectSeq(pares, Distinto)

\* dif_importe[importe_banco != importe_venta].dropna(subset=['importe_venta'])
\* (NaN differs from every amount, so the first mask keeps the rows without
\* a partner and the dropna removes them)
DifImporte(pares) ==
    LET Distinto(r) == r.importe_venta = NaNFloat \/ r.importe_banco # r.importe_venta
        Presente(r) == r.importe_venta # NaNFloat
    IN  SelectSeq(SelectSeq(pares, Distinto), Presente)

(* --------------------------- state machine ----------------------------- *)
Filas ==
    {[idcuenta |-> c[1], importe |-> c[2], fecha |-> t] :
        c \in Registros, t \in 0 .. MaxFecha}

\* a frame read from a file: the index labels are the row numbers
Indexar(f) ==
    [i \in DOMAIN f |->
        [idx |-> i, idcuenta |-> f[i].idcuenta, importe |-> f[i].importe,
         fecha |-> f[i].fecha]]

Init ==
    /\ \E nb \in 1 .. MaxFilas - 1 : \E nv \in 1 .. MaxFilas - nb :
         \E fb \in [1 .. nb -> Filas] : \E fv \in [1 .. nv -> Filas] :
            /\ df_banco = Indexar(fb)
            /\ df_ventas = Indexar(fv)
    /\ dtype_banco \in {d \in Dtypes :
          d = "int64" => \A i \in DOMAIN df_banco : df_banco[i].importe % 100 = 0}
    /\ dtype_ventas \in {d \in Dtypes :
          d = "int64" => \A i \in DOMAIN df_ventas : df_ventas[i].importe % 100 = 0}
    /\ tolerancia_horas \in 0 .. MaxTolerancia
    /\ conciliados = <<>>
    /\ conciliados_tol = <<>>
    /\ ventas_sin_depositar = <<>>
    /\ depositos_sin_registro = <<>>
    /\ dif_importe = <<>>
    /\ llamadas = 0

\* conciliar(df_banco, df_ventas, tolerancia_horas): one call, from the
\* copies of the frames to the four frames returned (the key column and the
\* sorting go to the copies, the frames passed in stay as they are)
Llamada ==
    LET df_banco_  == ConKey(df_banco, dtype_banco)
        df_ventas_ == ConKey(df_ventas, dtype_ventas)
        tol_df     == MergeAsofKey(df_banco_, df_ventas_, tolerancia_horas)
        conciliados_keys == ConciliadosKeys(tol_df)
    IN  /\ conciliados' = MergeInner(df_banco, df_ventas)
        /\ conciliados_tol' = DropKeyTol(tol_df)
        /\ ventas_sin_depositar' = SinKey(df_ventas_, conciliados_keys)
        /\ depositos_sin_registro' = SinKey(df_banco_, conciliados_keys)
        /\ dif_importe' =
              DifImporte(MergeAsofCuenta(df_banco_, df_ventas_, tolerancia_horas))
        /\ llamadas' = llamadas + 1
        /\ UNCHANGED <<df_banco, df_ventas, dtype_banco, dtype_ventas,
                       tolerancia_horas>>

\* the call main makes on the frames it has loaded and cleaned
Conciliar ==
    /\ llamadas = 0
    /\ Llamada

Next == Conciliar

Spec == Init /\ [][Next]_vars

\* the rows of the file are in the order of their timestamps
Cronologico(f) == \A i \in 1 .. Len(f) - 1 : f[i].fecha <= f[i + 1].fecha

\* Larger files, each in chronological order (sort_values keeps the order
\* of rows of equal fecha, so the sorted frames of a file and of its
\* chronological rearrangement agree up to the index labels), with the
\* amounts of both files in the same notation (with an int64 column on one
\* side and a float64 column on the other no key text of a bank row equals
\* the key text of a sales row, and nothing is paired).
InitCrono ==
    /\ \E nb \in 1 .. MaxFilasCrono - 1 : \E nv \in 1 .. MaxFilasCrono - nb :
         \E fb \in {f \in [1 .. nb -> Filas] : Cronologico(f)} :
         \E fv \in {f \in [1 .. nv -> Filas] : Cronologico(f)} :
            /\ df_banco = Indexar(fb)
            /\ df_ventas = Indexar(fv)
    /\ dtype_banco \in {d \in Dtypes :
          d = "int64" => \A i \in DOMAIN df_banco : df_banco[i].importe % 100 = 0}
    /\ dtype_ventas = dtype_banco
    /\ tolerancia_horas \in 0 .. MaxTolerancia
    /\ conciliados = <<>>
    /\ conciliados_tol = <<>>
    /\ ventas_sin_depositar = <<>>
    /\ depositos_sin_registro = <<>>
    /\ dif_importe = <<>>
    /\ llamadas = 0

SpecCrono == InitCrono /\ [][Next]_vars


(* ------------------------------ claims --------------------------------- *)
\* a call has returned
Hecho == llamadas > 0

\* the MatchKey of the data model: account and amount
MatchKey(r) == <<r.idcuenta, r.importe>>

Elementos(df) == {df[i] : i \in DOMAIN df}

\* the entries of matched that carry a sale
Pareados == {r \in Elementos(conciliados_tol) : r.venta # 0}

\* the MatchKeys of the pairings retained within the tolerance
ClavesRetenidas ==
    {<<r.idcuenta_banco, r.importe_banco>> : r \in Pareados}

\* C1: after a call, unmatched_sales is exactly the sale records whose
\* MatchKey is the key of no retained pairing, and unmatched_deposits is
\* exactly the bank records whose MatchKey is the key of no retained pairing.
C1_Residuales ==
    Hecho =>
      /\ Elementos(ventas_sin_depositar)
           = {v \in Elementos(df_ventas) : MatchKey(v) \notin ClavesRetenidas}
      /\ Elementos(depositos_sin_registro)
           = {b \in Elementos(df_banco) : MatchKey(b) \notin ClavesRetenidas}

\* C2: every entry of matched pairs a bank record with a sale record of the
\* same account and amount whose timestamp is within the tolerance; a bank
\* record without such a sale contributes no entry.
C2_ParesDentroDeTolerancia ==
    Hecho =>
      \A r \in Elementos(conciliados_tol) :
         /\ r.venta # 0
         /\ r.idcuenta_venta = r.idcuenta_banco
         /\ r.importe_venta = r.importe_banco
         /\ Abs(df_ventas[r.venta].fecha - r.fecha) <= tolerancia_horas

\* no two rows of the frame share a MatchKey or a timestamp
Disjuntos(df) ==
    \A i, j \in DOMAIN df :
       i # j => MatchKey(df[i]) # MatchKey(df[j]) /\ df[i].fecha # df[j].fecha

\* C3: on inputs whose rows are disjoint on each side, every sale record is
\* either the sale side of a matched pair or in unmatched_sales, and every
\* bank record is either the bank side of a matched pair with a partner or
\* in unmatched_deposits; never both, never neither.
C3_Particion ==
    (Hecho /\ Disjuntos(df_banco) /\ Disjuntos(df_ventas)) =>
      /\ \A v \in Elementos(df_ventas) :
            (\E r \in Pareados : r.venta = v.idx)
               # (v \in Elementos(ventas_sin_depositar))
      /\ \A b \in Elementos(df_banco) :
            (\E r \in Pareados : r.banco = b.idx)
               # (b \in Elementos(depositos_sin_registro))

\* C4: every pair of the exact pass (a bank record and a sale record of the
\* same account, amount and timestamp) is a pair of matched.
C4_ExactosEnTolerancia ==
    Hecho =>
      \A e \in Elementos(conciliados) :
         \E r \in Elementos(conciliados_tol) :
            r.banco = e.banco /\ r.venta = e.venta

\* C5: one bank record and one sale record of the same MatchKey are paired
\* when their timestamps differ by exactly the tolerance, on either side,
\* and are not paired when they differ by the tolerance plus one.
C5_Limite ==
    (Hecho /\ Len(df_banco) = 1 /\ Len(df_ventas) = 1
           /\ MatchKey(df_banco[1]) = MatchKey(df_ventas[1])) =>
      LET d == Abs(df_banco[1].fecha - df_ventas[1].fecha)
          pareado == conciliados_tol[1].venta = 1
      IN  /\ d = tolerancia_horas => pareado
          /\ d = tolerancia_horas + 1 => ~pareado

\* C6: every entry of discrepancies pairs a bank record with a sale record
\* of the same account within the tolerance whose amount differs; no entry
\* has equal amounts and no entry lacks its sale side.
C6_Diferencias ==
    Hecho =>
      \A r \in Elementos(dif_importe) :
         /\ r.venta # 0
         /\ r.importe_venta # NaNFloat
         /\ r.importe_venta = df_ventas[r.venta].importe
         /\ r.importe_banco # r.importe_venta
         /\ df_ventas[r.venta].idcuenta = r.idcuenta
         /\ Abs(df_ventas[r.venta].fecha - r.fecha) <= tolerancia_horas

\* C6 witness: a discrepancy is reported while another bank record, left
\* without a discrepancy entry, is not.
C6_Witness ==
    /\ Hecho
    /\ dif_importe # <<>>
    /\ Len(dif_importe) < Len(df_banco)

\* C8: two records get the same grouping key exactly when their accounts
\* and their amounts are identical.
C8_KeyIgualSiiMatchKey ==
    Hecho =>
      LET keyed == Elementos(ConKey(df_banco, dtype_banco))
                      \cup Elementos(ConKey(df_ventas, dtype_ventas))
      IN  \A r1, r2 \in keyed :
             (r1.key = r2.key) <=> (MatchKey(r1) = MatchKey(r2))

\* C9 (as stated): no sale record is the sale side of two matched entries.
C9_VentaUnaVez ==
    Hecho =>
      \A i, k \in DOMAIN conciliados_tol :
         (i # k /\ conciliados_tol[i].venta # 0)
            => conciliados_tol[i].venta # conciliados_tol[k].venta

\* the sale is a nearest sale of the bank row's key text within the
\* tolerance: no sale of that key is strictly nearer
EsMasCercana(b, s) ==
    /\ Key(s, dtype_ventas) = Key(b, dtype_banco)
    /\ Abs(s.fecha - b.fecha) <= tolerancia_horas
    /\ \A w \in Elementos(df_ventas) :
          Key(w, dtype_ventas) = Key(b, dtype_banco)
             => Abs(s.fecha - b.fecha) <= Abs(w.fecha - b.fecha)

\* the sale is the one nearest sale of the bank row's key text within the
\* tolerance: every other sale of that key is strictly further away
EsLaMasCercana(b, s) ==
    /\ EsMasCercana(b, s)
    /\ \A w \in Elementos(df_ventas) \ {s} :
          Key(w, dtype_ventas) = Key(b, dtype_banco)
             => Abs(s.fecha - b.fecha) < Abs(w.fecha - b.fecha)

\* C9 (amended): a sale record is the sale side of two different matched
\* entries only when both bank records have the sale's key text and each
\* has that sale as a nearest sale of its key within the tolerance; and a
\* sale is not consumed: every bank record whose one nearest sale of its key
\* within the tolerance it is, is paired with it.
C9_VentaCompartida ==
    Hecho =>
      /\ \A i, k \in DOMAIN conciliados_tol :
            (/\ i # k
             /\ conciliados_tol[i].venta # 0
             /\ conciliados_tol[i].venta = conciliados_tol[k].venta)
               => LET s == df_ventas[conciliados_tol[i].venta]
                  IN  /\ EsMasCercana(df_banco[conciliados_tol[i].banco], s)
                      /\ EsMasCercana(df_banco[conciliados_tol[k].banco], s)
      /\ \A b \in Elementos(df_banco) : \A s \in Elementos(df_ventas) :
            EsLaMasCercana(b, s)
               => \E r \in Pareados : r.banco = b.idx /\ r.venta = s.idx

\* C9 witness: two bank records are paired with the same sale record while
\* another sale of their key lies as near to one of them.
C9_Witness ==
    /\ Hecho
    /\ \E i, k \in DOMAIN conciliados_tol :
          /\ i # k
          /\ conciliados_tol[i].venta # 0
          /\ conciliados_tol[i].venta = conciliados_tol[k].venta
          /\ \E w \in Elementos(df_ventas) :
                /\ w.idx # conciliados_tol[i].venta
                /\ EsMasCercana(df_banco[conciliados_tol[i].banco], w)

\* C10: the sale paired with a bank record has the bank record's MatchKey
\* and is nearest in time among the sale records of that MatchKey; of an
\* earlier and a later sale at the same distance the earlier one is paired.
C10_MasCercano ==
    Hecho =>
      \A r \in Pareados :
         LET b == df_banco[r.banco]
             s == df_ventas[r.venta]
         IN  /\ MatchKey(s) = MatchKey(b)
             /\ \A w \in Elementos(df_ventas) :
                   MatchKey(w) = MatchKey(b) =>
                      /\ Abs(s.fecha - b.fecha) <= Abs(w.fecha - b.fecha)
                      /\ Abs(s.fecha - b.fecha) = Abs(w.fecha - b.fecha)
                            => s.fecha <= w.fecha
====
